---- MODULE Spec2Model ----
(***************************************************************************)
(* karatOS kernel: the async event-driven scheduler of                     *)
(* kernel/src/scheduler.rs (AsyncScheduler, its four LockFreeEventQueue    *)
(* rings and the public API that drives the SCHEDULER static).             *)
(*                                                                         *)
(* Every method of AsyncScheduler is an operator from a scheduler record   *)
(* to the record after the call (and the call's return value); every       *)
(* public API call is one action on the variable sched.                    *)
(***************************************************************************)
EXTENDS Integers, Sequences, FiniteSets, TLC

(***************************************************************************)
(* Bounds.  MAX_TASKS and MAX_EVENTS_PER_PRIORITY are 8 and 16 in          *)
(* scheduler.rs:22-23; the model runs the same code on a smaller table and *)
(* smaller rings.  The other bounds limit the inputs of the API calls.     *)
(***************************************************************************)
MAX_TASKS == 3

MAX_EVENTS_PER_PRIORITY == 2

\* accepted posts explored by Spec and SpecPriority
MaxPosts == 2

\* accepted posts explored by SpecRings
MaxRingPosts == 4

\* capacity of each queue of simple_async_scheduler
MAX_EVENTS == 3

\* accepted posts explored by SpecSimple, over the four queues together
MaxSimplePosts == 4

\* capacity of the UART's command_buffer (a String) and input_buffer (a Vec)
MAX_COMMAND_LEN == 4

COMMAND_BUFFER_SIZE == 6

\* event ids posted and waited for: 1..MaxEventId
MaxEventId == 2

\* ticks handed to update_timer: 0..MaxTick
MaxTick == 2

\* durations handed to sleep_current_task: 1..MaxDuration
MaxDuration == 1

\* width of the u32 tick counter, scaled down so that the wrap is reachable
WORD_BITS == 3

\* durations handed to sleep_current_task next to the wrap: 1..MaxWrapDuration
MaxWrapDuration == 2

(***************************************************************************)
(* EventPriority / TaskPriority discriminants (the two enums share them).  *)
(***************************************************************************)
Critical == 0

High == 1

Normal == 2

Low == 3

Priorities == {Critical, High, Normal, Low}

\* ids given to spawned tasks (Task.id is chosen by the caller)
TaskIds == {1}

EventIds == 1..MaxEventId

Ticks == 0..MaxTick

Durations == 1..MaxDuration

Slots == 0..(MAX_TASKS - 1)

(***************************************************************************)
(* Option<T>: None is the empty set, Some(x) the singleton.                *)
(***************************************************************************)
None == {}

Some(x) == {x}

Unwrap(o) == CHOOSE x \in o : TRUE

Min(S) == CHOOSE x \in S : \A y \in S : x <= y

(***************************************************************************)
(* TaskState                                                               *)
(***************************************************************************)
Ready == [tag |-> "Ready"]

Running == [tag |-> "Running"]

WaitingForEvent(event_id) == [tag |-> "WaitingForEvent", id |-> event_id]

Sleeping(wake_time) == [tag |-> "Sleeping", wake_time |-> wake_time]

Completed == [tag |-> "Completed"]

\* Task::with_priority
Task_with_priority(id, priority) ==
    [id |-> id, priority |-> priority, state |-> Ready, waiting_event |-> None]

\* Task::new
Task_new(id) == Task_with_priority(id, Normal)

\* Task::is_ready
is_ready(task) == task.state = Ready

\* Event::new
Event_new(id, priority) == [id |-> id, priority |-> priority, data |-> 0]

(***************************************************************************)
(* LockFreeEventQueue<N>: buffer of N MaybeUninit<Event>, head and tail    *)
(* counters that only grow; the storage index is counter % N.              *)
(***************************************************************************)
UNINIT == [uninit |-> TRUE]

LockFreeEventQueue_new ==
    [buffer |-> [k \in 0..(MAX_EVENTS_PER_PRIORITY - 1) |-> UNINIT],
     head |-> 0, tail |-> 0]

\* tail % N, head % N
RingIndex(counter) == counter % MAX_EVENTS_PER_PRIORITY

\* mutant: the full test off by one
RingFull_OffByOne(q) == q.tail - q.head > MAX_EVENTS_PER_PRIORITY

\* tail.wrapping_sub(head) >= N
RingFull(q) == q.tail - q.head >= MAX_EVENTS_PER_PRIORITY

\* mutant: push writes without the full check
push_NoFullCheck(q, event) ==
    [q |-> [q EXCEPT !.buffer[RingIndex(q.tail)] = event,
                     !.tail = q.tail + 1],
     ok |-> TRUE, err |-> None]

\* push: Err(event) on a full ring, else write at tail % N and advance tail
push(q, event) ==
    IF RingFull(q)
    THEN [q |-> q, ok |-> FALSE, err |-> Some(event)]
    ELSE [q |-> [q EXCEPT !.buffer[RingIndex(q.tail)] = event,
                          !.tail = q.tail + 1],
          ok |-> TRUE, err |-> None]

\* mutant: pop reads the newest event instead of the oldest
pop_Newest(q) ==
    IF q.head = q.tail
    THEN [q |-> q, event |-> None]
    ELSE [q |-> [q EXCEPT !.head = q.head + 1],
          event |-> Some(q.buffer[RingIndex(q.tail - 1)])]

\* pop: None on an empty ring, else read at head % N and advance head
pop(q) ==
    IF q.head = q.tail
    THEN [q |-> q, event |-> None]
    ELSE [q |-> [q EXCEPT !.head = q.head + 1],
          event |-> Some(q.buffer[RingIndex(q.head)])]

(***************************************************************************)
(* AsyncScheduler                                                          *)
(***************************************************************************)
AsyncScheduler_new ==
    [tasks |-> [i \in Slots |-> None],
     current_task |-> None,
     next_task |-> None,
     events |-> [p \in Priorities |-> LockFreeEventQueue_new],
     needs_reschedule |-> FALSE,
     active_tasks |-> 0,
     event_counter |-> 0,
     timer_base |-> 0]

\* the state of an occupied slot
StateOf(s, i) == Unwrap(s.tasks[i]).state

HasState(s, i, st) == s.tasks[i] # None /\ StateOf(s, i) = st

SetState(tasks, i, st) == [tasks EXCEPT ![i] = Some([Unwrap(@) EXCEPT !.state = st])]

\* mutant: the scan takes the highest empty slot
spawn_task_LastFree(s, task) ==
    LET free == {i \in Slots : s.tasks[i] = None}
    IN  IF free = {}
        THEN [s |-> s, ret |-> [ok |-> FALSE]]
        ELSE LET i == CHOOSE x \in free : \A y \in free : y <= x
             IN  [s |-> [s EXCEPT !.tasks[i] = Some(task),
                                  !.active_tasks = @ + 1,
                                  !.needs_reschedule = TRUE],
                  ret |-> [ok |-> TRUE, slot |-> i]]

\* mutant: the task is stored without counting it
spawn_task_NoCount(s, task) ==
    LET free == {i \in Slots : s.tasks[i] = None}
    IN  IF free = {}
        THEN [s |-> s, ret |-> [ok |-> FALSE]]
        ELSE LET i == Min(free)
             IN  [s |-> [s EXCEPT !.tasks[i] = Some(task),
                                  !.needs_reschedule = TRUE],
                  ret |-> [ok |-> TRUE, slot |-> i]]

\* spawn_task: first empty slot, or Err(())
spawn_task(s, task) ==
    LET free == {i \in Slots : s.tasks[i] = None}
    IN  IF free = {}
        THEN [s |-> s, ret |-> [ok |-> FALSE]]
        ELSE LET i == Min(free)
             IN  [s |-> [s EXCEPT !.tasks[i] = Some(task),
                                  !.active_tasks = @ + 1,
                                  !.needs_reschedule = TRUE],
                  ret |-> [ok |-> TRUE, slot |-> i]]

\* mutant: the scan keeps the last match instead of breaking at the first
WakeTarget_Last(s, event_id) ==
    LET waiting == {i \in Slots : s.tasks[i] # None
                       /\ Unwrap(s.tasks[i]).state = WaitingForEvent(event_id)}
    IN  IF waiting = {} THEN None
        ELSE Some(CHOOSE x \in waiting : \A y \in waiting : y <= x)

\* the slot wake_waiting_tasks wakes: the scan is in slot order and breaks
\* at the first task in WaitingForEvent(event_id)
WakeTarget(s, event_id) ==
    LET waiting == {i \in Slots : HasState(s, i, WaitingForEvent(event_id))}
    IN  IF waiting = {} THEN None ELSE Some(Min(waiting))

\* the displaced hot-slot task goes back to Ready if it is Running
DemoteDisplaced(tasks, displaced) ==
    IF displaced # None /\ tasks[Unwrap(displaced)] # None
       /\ Unwrap(tasks[Unwrap(displaced)]).state = Running
    THEN SetState(tasks, Unwrap(displaced), Ready)
    ELSE tasks

\* mutant: the woken task is not put in the hot slot
wake_waiting_tasks_NoHotSlot(s, event_id) ==
    LET target == WakeTarget(s, event_id)
    IN  IF target = None
        THEN s
        ELSE [s EXCEPT !.tasks[Unwrap(target)] =
                          Some([Unwrap(@) EXCEPT !.state = Ready,
                                                 !.waiting_event = None]),
                       !.needs_reschedule = TRUE]

\* mutant: the woken task keeps its waiting_event
wake_waiting_tasks_KeepsWaitingEvent(s, event_id) ==
    LET target == WakeTarget(s, event_id)
    IN  IF target = None
        THEN s
        ELSE LET i == Unwrap(target)
                 woken == [s.tasks EXCEPT ![i] =
                              Some([Unwrap(@) EXCEPT !.state = Ready])]
             IN  [s EXCEPT !.tasks = DemoteDisplaced(woken, s.next_task),
                           !.next_task = Some(i),
                           !.needs_reschedule = TRUE]

\* mutant: an occupied hot slot keeps the task it names
wake_waiting_tasks_KeepsHotSlot(s, event_id) ==
    LET target == WakeTarget(s, event_id)
    IN  IF target = None
        THEN s
        ELSE [s EXCEPT !.tasks[Unwrap(target)] =
                          Some([Unwrap(@) EXCEPT !.state = Ready,
                                                 !.waiting_event = None]),
                       !.next_task = IF @ = None THEN target ELSE @,
                       !.needs_reschedule = TRUE]

wake_waiting_tasks(s, event_id) ==
    LET target == WakeTarget(s, event_id)
    IN  IF target = None
        THEN s
        ELSE LET i == Unwrap(target)
                 woken == [s.tasks EXCEPT ![i] =
                              Some([Unwrap(@) EXCEPT !.state = Ready,
                                                     !.waiting_event = None])]
             IN  [s EXCEPT !.tasks = DemoteDisplaced(woken, s.next_task),
                           !.next_task = Some(i),
                           !.needs_reschedule = TRUE]

\* mutant: the waiter is woken whether or not the ring took the event
post_event_WakesOnReject(s, event) ==
    LET r == push(s.events[event.priority], event)
    IN  IF r.ok
        THEN [s |-> wake_waiting_tasks(
                        [s EXCEPT !.events[event.priority] = r.q,
                                  !.event_counter = @ + 1],
                        event.id),
              ret |-> TRUE, push_err |-> r.err]
        ELSE [s |-> wake_waiting_tasks(s, event.id),
              ret |-> FALSE, push_err |-> r.err]

\* mutant: the event is counted whether or not the ring took it
post_event_CountsRejected(s, event) ==
    LET r == push(s.events[event.priority], event)
    IN  IF r.ok
        THEN [s |-> wake_waiting_tasks(
                        [s EXCEPT !.events[event.priority] = r.q,
                                  !.event_counter = @ + 1],
                        event.id),
              ret |-> TRUE, push_err |-> r.err]
        ELSE [s |-> [s EXCEPT !.event_counter = @ + 1],
              ret |-> FALSE, push_err |-> r.err]

\* mutant: post_event enqueues and counts, and wakes nobody
post_event_EnqueueOnly(s, event) ==
    LET r == push(s.events[event.priority], event)
    IN  IF r.ok
        THEN [s |-> [s EXCEPT !.events[event.priority] = r.q,
                              !.event_counter = @ + 1],
              ret |-> TRUE, push_err |-> r.err]
        ELSE [s |-> s, ret |-> FALSE, push_err |-> r.err]

\* post_event: push into the ring of event.priority; on success count the
\* event and wake the first waiter
post_event(s, event) ==
    LET r == push(s.events[event.priority], event)
    IN  IF r.ok
        THEN [s |-> wake_waiting_tasks(
                        [s EXCEPT !.events[event.priority] = r.q,
                                  !.event_counter = @ + 1],
                        event.id),
              ret |-> TRUE, push_err |-> r.err]
        ELSE [s |-> s, ret |-> FALSE, push_err |-> r.err]

\* mutant: the rings are popped lowest priority first
DispatchOrder_Reversed == <<Low, Normal, High, Critical>>

\* the order in which process_events pops the four rings
DispatchOrder == <<Critical, High, Normal, Low>>

\* one `if let Some(event) = ring.pop() { handle_event; processed += 1 }`
\* per ring of DispatchOrder, from position k on
RECURSIVE PopEach(_, _)
PopEach(events, k) ==
    IF k > Len(DispatchOrder)
    THEN [events |-> events, handled |-> <<>>]
    ELSE LET p == DispatchOrder[k]
             r == pop(events[p])
             rest == PopEach([events EXCEPT ![p] = r.q], k + 1)
         IN  [events |-> rest.events,
              handled |-> (IF r.event = None THEN <<>> ELSE <<Unwrap(r.event)>>)
                          \o rest.handled]

\* mutant: only the highest-priority non-empty ring is popped
process_events_HighestOnly(s) ==
    LET nonempty == {k \in 1..Len(DispatchOrder) :
                        s.events[DispatchOrder[k]].head
                            # s.events[DispatchOrder[k]].tail}
    IN  IF nonempty = {}
        THEN [s |-> s, processed |-> 0, handled |-> <<>>]
        ELSE LET p == DispatchOrder[Min(nonempty)]
                 r == pop(s.events[p])
             IN  [s |-> [s EXCEPT !.events[p] = r.q],
                  processed |-> 1,
                  handled |-> <<Unwrap(r.event)>>]

\* process_events: handle_event changes no scheduler state
process_events(s) ==
    LET r == PopEach(s.events, 1)
    IN  [s |-> [s EXCEPT !.events = r.events],
         processed |-> Len(r.handled),
         handled |-> r.handled]

\* mutant: block leaves current_task set
block_current_task_KeepsCurrent(s, event_id) ==
    IF s.current_task = None
    THEN s
    ELSE [s EXCEPT !.tasks = SetState(@, Unwrap(s.current_task),
                                      WaitingForEvent(event_id)),
                   !.needs_reschedule = TRUE]

\* mutant: needs_reschedule is set even when no task is current
block_current_task_AlwaysFlags(s, event_id) ==
    IF s.current_task = None
    THEN [s EXCEPT !.needs_reschedule = TRUE]
    ELSE LET c == Unwrap(s.current_task)
         IN  [s EXCEPT !.tasks = IF s.tasks[c] = None THEN @
                                 ELSE [@ EXCEPT ![c] =
                                    Some([Unwrap(@) EXCEPT
                                        !.state = WaitingForEvent(event_id),
                                        !.waiting_event = Some(event_id)])],
                       !.current_task = None,
                       !.needs_reschedule = TRUE]

\* block_current_task
block_current_task(s, event_id) ==
    IF s.current_task = None
    THEN s
    ELSE LET c == Unwrap(s.current_task)
         IN  [s EXCEPT !.tasks = IF s.tasks[c] = None THEN @
                                 ELSE [@ EXCEPT ![c] =
                                    Some([Unwrap(@) EXCEPT
                                        !.state = WaitingForEvent(event_id),
                                        !.waiting_event = Some(event_id)])],
                       !.current_task = None,
                       !.needs_reschedule = TRUE]

\* mutant: the deadline is the duration, not timer_base + duration
sleep_current_task_RelativeDeadline(s, duration) ==
    IF s.current_task = None
    THEN s
    ELSE LET c == Unwrap(s.current_task)
         IN  [s EXCEPT !.tasks = IF s.tasks[c] = None THEN @
                                 ELSE SetState(@, c, Sleeping(duration)),
                       !.current_task = None,
                       !.needs_reschedule = TRUE]

\* u32 values are 0..U32_MODULUS-1
U32_MODULUS == 2 ^ WORD_BITS

\* timer_base + duration does not fit in a u32
AddOverflows(s, duration) == s.timer_base + duration >= U32_MODULUS

\* the u32 sum of a build without overflow checks
wrapping_add(a, b) == (a + b) % U32_MODULUS

\* sleep_current_task: wake_time = timer_base + duration, a u32 sum, then
\* widened to u64 (with overflow checks the sum panics instead: SleepPanics)
sleep_current_task(s, duration) ==
    IF s.current_task = None
    THEN s
    ELSE LET c == Unwrap(s.current_task)
         IN  [s EXCEPT !.tasks = IF s.tasks[c] = None THEN @
                                 ELSE SetState(@, c,
                                        Sleeping(wrapping_add(s.timer_base, duration))),
                       !.current_task = None,
                       !.needs_reschedule = TRUE]

\* mutant: strict comparison
Expired_Strict(current_time, wake_time) == current_time > wake_time

\* (current_time as u64) >= wake_time
Expired(current_time, wake_time) == current_time >= wake_time

\* the slots update_timer moves from Sleeping to Ready
Due(s, current_time) ==
    {i \in Slots : s.tasks[i] # None /\ StateOf(s, i).tag = "Sleeping"
                   /\ Expired(current_time, StateOf(s, i).wake_time)}

\* mutant: the tasks woken by the timer take the hot slot
update_timer_TakesHotSlot(s, current_time) ==
    LET due == Due(s, current_time)
    IN  [s EXCEPT !.timer_base = current_time,
                  !.tasks = [i \in Slots |->
                                IF i \in due
                                THEN Some([Unwrap(s.tasks[i]) EXCEPT !.state = Ready])
                                ELSE s.tasks[i]],
                  !.next_task = IF due = {} THEN @ ELSE Some(Min(due)),
                  !.needs_reschedule = (@ \/ due # {})]

\* update_timer
update_timer(s, current_time) ==
    LET due == Due(s, current_time)
    IN  [s EXCEPT !.timer_base = current_time,
                  !.tasks = [i \in Slots |->
                                IF i \in due
                                THEN Some([Unwrap(s.tasks[i]) EXCEPT !.state = Ready])
                                ELSE s.tasks[i]],
                  !.needs_reschedule = (@ \/ due # {})]

\* mutant: the previous task is left Running
DemoteCurrent_Never(tasks, current) == tasks

\* "mark current task as ready if it was running": both dispatch paths
DemoteCurrent(tasks, current) ==
    IF current # None /\ tasks[Unwrap(current)] # None
       /\ Unwrap(tasks[Unwrap(current)]).state = Running
    THEN SetState(tasks, Unwrap(current), Ready)
    ELSE tasks

\* mutant: the search always starts at slot 0
StartSearch_Zero(current) == 0

\* start_search = current.map(|id| (id + 1) % MAX_TASKS).unwrap_or(0)
StartSearch(current) ==
    IF current = None THEN 0 ELSE (Unwrap(current) + 1) % MAX_TASKS

\* mutant: the loop stops one slot short and never comes back to start - 1
FirstReady_OneShort(tasks, start) ==
    LET hits == {k \in 0..(MAX_TASKS - 2) :
                    LET id == (start + k) % MAX_TASKS
                    IN  tasks[id] # None /\ Unwrap(tasks[id]).state = Ready}
    IN  IF hits = {} THEN None ELSE Some((start + Min(hits)) % MAX_TASKS)

\* the first Ready slot among (start + 0..MAX_TASKS-1) % MAX_TASKS
FirstReady(tasks, start) ==
    LET hits == {k \in 0..(MAX_TASKS - 1) :
                    LET id == (start + k) % MAX_TASKS
                    IN  tasks[id] # None /\ Unwrap(tasks[id]).state = Ready}
    IN  IF hits = {} THEN None ELSE Some((start + Min(hits)) % MAX_TASKS)

\* the hot-slot branch of schedule, taken when the taken slot is Ready
ScheduleHot(s, next_id) ==
    LET demoted == IF s.current_task # Some(next_id)
                   THEN DemoteCurrent(s.tasks, s.current_task)
                   ELSE s.tasks
    IN  [s EXCEPT !.tasks = SetState(demoted, next_id, Running),
                  !.current_task = Some(next_id)]

\* the rescan branch of schedule (needs_reschedule was set or current is None)
ScheduleRescan(s) ==
    LET demoted == DemoteCurrent(s.tasks, s.current_task)
        found == FirstReady(demoted, StartSearch(s.current_task))
    IN  IF found = None
        THEN [s EXCEPT !.tasks = demoted]
        ELSE [s EXCEPT !.tasks = SetState(demoted, Unwrap(found), Running),
                       !.current_task = found]

\* mutant: no steady state, every call without a hot dispatch rescans
SchedulePath_AlwaysRescan(s) ==
    IF s.next_task # None /\ s.tasks[Unwrap(s.next_task)] # None
       /\ is_ready(Unwrap(s.tasks[Unwrap(s.next_task)]))
    THEN "hot"
    ELSE "rescan"

\* which branch schedule takes after process_events
SchedulePath(s) ==
    IF s.next_task # None /\ s.tasks[Unwrap(s.next_task)] # None
       /\ is_ready(Unwrap(s.tasks[Unwrap(s.next_task)]))
    THEN "hot"
    ELSE IF s.needs_reschedule \/ s.current_task = None
         THEN "rescan"
         ELSE "steady"

\* mutant: the hot slot is read but not taken
ScheduleSelect_PeeksHotSlot(s1) ==
    LET path == SchedulePath(s1)
        s2 == IF path = "hot"
              THEN ScheduleHot(s1, Unwrap(s1.next_task))
              ELSE IF path = "rescan"
                   THEN ScheduleRescan([s1 EXCEPT !.needs_reschedule = FALSE])
                   ELSE [s1 EXCEPT !.needs_reschedule = FALSE]
    IN  [s |-> s2, path |-> path]

\* schedule after its dispatch pass: hot slot, rescan or steady state
ScheduleSelect(s1) ==
    LET path == SchedulePath(s1)
        \* next_task.take()
        taken == [s1 EXCEPT !.next_task = None]
        s2 == IF path = "hot"
              THEN ScheduleHot(taken, Unwrap(s1.next_task))
              \* needs_reschedule.swap(false) runs on both remaining paths
              ELSE IF path = "rescan"
                   THEN ScheduleRescan([taken EXCEPT !.needs_reschedule = FALSE])
                   ELSE [taken EXCEPT !.needs_reschedule = FALSE]
    IN  [s |-> s2, path |-> path]

\* schedule
schedule(s) ==
    LET pe == process_events(s)
        sel == ScheduleSelect(pe.s)
        s2 == sel.s
    IN  [s |-> s2,
         ret |-> IF s2.current_task = None THEN None
                 ELSE s2.tasks[Unwrap(s2.current_task)],
         path |-> sel.path,
         handled |-> pe.handled]

\* stats: (active_tasks, event_counter, timer_base)
stats(s) == <<s.active_tasks, s.event_counter, s.timer_base>>

(***************************************************************************)
(* AsyncTask: the task record that carries a wake counter.  The scheduler  *)
(* stores Task, which has none, and builds no AsyncTask.                   *)
(***************************************************************************)
AsyncTask_new(id, priority) ==
    [id |-> id, priority |-> priority, state |-> Ready,
     waiting_event |-> None, wake_count |-> 0]

\* AsyncTask::wake: wake_count.fetch_add(1)
wake(t) == [t EXCEPT !.wake_count = @ + 1]

\* the wake count a task of the table can report: Task has no counter and
\* no operation of the scheduler calls wake, so it is the count of the
\* AsyncTask made for the task, as AsyncTask::new left it
wake_count(task) == AsyncTask_new(task.id, task.priority).wake_count

(***************************************************************************)
(* MultiPriorityExecutor: one AsyncScheduler per task priority.            *)
(* schedulers[Critical] is critical_scheduler, and so on.                  *)
(***************************************************************************)
MultiPriorityExecutor_new ==
    [schedulers |-> [p \in Priorities |-> AsyncScheduler_new],
     current_priority |-> Low]

\* MultiPriorityExecutor::spawn_task: into the scheduler of task.priority
Multi_spawn_task(m, task) ==
    LET r == spawn_task(m.schedulers[task.priority], task)
    IN  [m |-> [m EXCEPT !.schedulers[task.priority] = r.s], ret |-> r.ret]

\* MultiPriorityExecutor::post_event: into the scheduler of event.priority
Multi_post_event(m, event) ==
    LET r == post_event(m.schedulers[event.priority], event)
    IN  [m |-> [m EXCEPT !.schedulers[event.priority] = r.s], ret |-> r.ret]

\* run_cycle from level p down: schedule() of each level in turn, returning
\* at the first level whose schedule() returns a task
RECURSIVE RunCycleFrom(_, _)
RunCycleFrom(m, p) ==
    IF p > Low
    THEN [m |-> m, ret |-> None]
    ELSE LET r == schedule(m.schedulers[p])
             m1 == [m EXCEPT !.schedulers[p] = r.s]
         IN  IF r.ret # None
             THEN [m |-> [m1 EXCEPT !.current_priority = p], ret |-> r.ret]
             ELSE RunCycleFrom(m1, p + 1)

\* mutant: the Low scheduler is asked first
run_cycle_LowFirst(m) ==
    LET r == schedule(m.schedulers[Low])
        m1 == [m EXCEPT !.schedulers[Low] = r.s]
    IN  IF r.ret # None
        THEN [m |-> [m1 EXCEPT !.current_priority = Low], ret |-> r.ret]
        ELSE RunCycleFrom(m1, Critical)

\* MultiPriorityExecutor::run_cycle
run_cycle(m) == RunCycleFrom(m, Critical)

(***************************************************************************)
(* simple_async_scheduler: four EventQueue statics, each a heapless Vec of *)
(* at most MAX_EVENTS events, here a sequence.                             *)
(***************************************************************************)
EventQueue_new == <<>>

\* mutant: push has no capacity check
EventQueue_push_Unbounded(events, event) ==
    [events |-> Append(events, event), ok |-> TRUE]

\* EventQueue::push: Vec::push(event).is_ok()
EventQueue_push(events, event) ==
    IF Len(events) < MAX_EVENTS
    THEN [events |-> Append(events, event), ok |-> TRUE]
    ELSE [events |-> events, ok |-> FALSE]

\* the scan of pop: highest_idx moves only to a strictly lower priority
\* number, so it ends at the first index that holds the lowest number
HighestIdx(events) ==
    Min({i \in 1..Len(events) :
            \A j \in 1..Len(events) : events[i].priority <= events[j].priority})

\* Vec::swap_remove(idx): the last element takes the place of the removed
swap_remove(events, idx) ==
    [events |-> [k \in 1..(Len(events) - 1) |->
                    IF k = idx THEN events[Len(events)] ELSE events[k]],
     removed |-> events[idx]]

\* mutant: pop returns the event and leaves it in the queue
EventQueue_pop_Peek(events) ==
    IF events = <<>>
    THEN [events |-> events, event |-> None]
    ELSE [events |-> events, event |-> Some(events[HighestIdx(events)])]

\* EventQueue::pop
EventQueue_pop(events) ==
    IF events = <<>>
    THEN [events |-> events, event |-> None]
    ELSE LET r == swap_remove(events, HighestIdx(events))
         IN  [events |-> r.events, event |-> Some(r.removed)]

\* simple_async_scheduler::post_event: push onto the queue of event.priority
simple_post_event(qs, event) ==
    LET r == EventQueue_push(qs[event.priority], event)
    IN  [qs |-> [qs EXCEPT ![event.priority] = r.events], ret |-> r.ok]

\* mutant: the pass goes on to the lower queues after handling an event
simple_process_events_AllLevels(qs) ==
    LET popped == [p \in Priorities |-> EventQueue_pop(qs[p])]
        hit == {p \in Priorities : popped[p].event # None}
    IN  [qs |-> [p \in Priorities |-> popped[p].events],
         processed |-> Cardinality(hit),
         handled |-> IF hit = {} THEN None ELSE popped[Min(hit)].event]

\* simple_async_scheduler::process_events: one pop from the first non-empty
\* queue in the order Critical, High, Normal, Low; a pop is tried on a
\* queue only while processed = 0
simple_process_events(qs) ==
    LET nonempty == {p \in Priorities : qs[p] # <<>>}
    IN  IF nonempty = {}
        THEN [qs |-> qs, processed |-> 0, handled |-> None]
        ELSE LET p == Min(nonempty)
                 r == EventQueue_pop(qs[p])
             IN  [qs |-> [qs EXCEPT ![p] = r.events],
                  processed |-> 1, handled |-> r.event]

(***************************************************************************)
(* UartInterface: bytes are their ASCII codes, strings sequences of them.  *)
(***************************************************************************)
BS == 8

LF == 10

CR == 13

SPACE == 32

TILDE == 126

DEL == 127

\* "status", "exit", "restart", "reboot", "help", "?"
STATUS == <<115, 116, 97, 116, 117, 115>>

EXIT == <<101, 120, 105, 116>>

RESTART == <<114, 101, 115, 116, 97, 114, 116>>

REBOOT == <<114, 101, 98, 111, 111, 116>>

HELP == <<104, 101, 108, 112>>

QUESTION == <<63>>

UartInterface_new == [command_buffer |-> <<>>, input_buffer |-> <<>>]

\* str::trim on a string of printable ASCII: the spaces at both ends go
RECURSIVE trim(_)
trim(s) ==
    IF s = <<>> THEN s
    ELSE IF s[1] = SPACE THEN trim(Tail(s))
    ELSE IF s[Len(s)] = SPACE THEN trim(SubSeq(s, 1, Len(s) - 1))
    ELSE s

\* char::to_lowercase on ASCII
to_lowercase(c) == IF c \in 65..90 THEN c + 32 ELSE c

\* heapless String::push_str: appends the whole string if it fits within
\* the capacity, else appends nothing and returns Err
push_str(capacity, string, add) ==
    IF Len(string) + Len(add) <= capacity THEN string \o add ELSE string

\* the match of parse_command on the lowercased command
MatchCommand(lowercase_cmd) ==
    IF lowercase_cmd = STATUS THEN [tag |-> "Status"]
    ELSE IF lowercase_cmd = EXIT THEN [tag |-> "Exit"]
    ELSE IF lowercase_cmd \in {RESTART, REBOOT} THEN [tag |-> "Restart"]
    ELSE IF lowercase_cmd \in {HELP, QUESTION, <<>>} THEN [tag |-> "Help"]
    ELSE [tag |-> "Unknown",
          text |-> push_str(MAX_COMMAND_LEN, <<>>, lowercase_cmd)]

\* parse_command: lowercase command_buffer char by char, then match
parse_command(u) ==
    MatchCommand([k \in 1..Len(u.command_buffer) |->
                     to_lowercase(u.command_buffer[k])])

\* process_byte.  input_buffer holds printable ASCII only, so from_utf8
\* always succeeds.
process_byte(u, byte) ==
    IF byte \in {LF, CR}
    THEN IF u.input_buffer # <<>>
         THEN LET u1 == [u EXCEPT !.command_buffer =
                            push_str(MAX_COMMAND_LEN, <<>>, trim(u.input_buffer))]
              IN  [u |-> [u1 EXCEPT !.input_buffer = <<>>],
                   ret |-> Some(parse_command(u1))]
         ELSE [u |-> u, ret |-> None]
    ELSE IF byte \in {BS, DEL}
    THEN [u |-> [u EXCEPT !.input_buffer =
                    IF @ = <<>> THEN @ ELSE SubSeq(@, 1, Len(@) - 1)],
          ret |-> None]
    ELSE IF byte \in SPACE..TILDE
    THEN [u |-> [u EXCEPT !.input_buffer =
                    IF Len(@) < COMMAND_BUFFER_SIZE - 1
                    THEN Append(@, byte) ELSE @],
          ret |-> None]
    ELSE [u |-> u, ret |-> None]

(***************************************************************************)
(* State.                                                                  *)
(*   sched  the SCHEDULER static                                           *)
(*   last   the most recent public API call: name, arguments, return value *)
(*   hist   per ring, the events push accepted and the events pop returned *)
(*   woke   per slot, what happened to a task since a post woke it:        *)
(*          NotWoken, or the number of schedule calls that returned since  *)
(*          without the task Running (capped at 2) and whether a later     *)
(*          post took the hot slot from it before the first of them        *)
(*   interrupts_enabled  INTERRUPTS_ENABLED, the interrupt-enable flag     *)
(*   main   where the main loop is inside with_scheduler: Idle between     *)
(*          calls, else the call, its position, the scheduler and the flag *)
(*          at entry, and whether a handler ran since                      *)
(*   multi  the MULTI_PRIORITY_SCHEDULER static                            *)
(*   queues the statics CRITICAL_EVENTS, HIGH_EVENTS, NORMAL_EVENTS and    *)
(*          LOW_EVENTS of simple_async_scheduler, by priority              *)
(*   uart   a UartInterface                                                *)
(***************************************************************************)
VARIABLES sched, last, hist, woke, interrupts_enabled, main, multi, queues,
          uart

vars == <<sched, last, hist, woke, interrupts_enabled, main, multi, queues,
          uart>>

\* the statics a call on the SCHEDULER static never touches
OtherStatics == UNCHANGED <<multi, queues, uart>>

Idle == [pc |-> "idle"]

\* mutant: the flag is left as it is
disable_interrupts_Noop == interrupts_enabled

\* arch::disable_interrupts: the value it leaves in the flag
disable_interrupts == FALSE

\* arch::enable_interrupts: the value it leaves in the flag
enable_interrupts == TRUE

\* a public call taken as one step: with_scheduler from entry to return,
\* made from the main loop between its calls
WholeCall ==
    /\ main = Idle
    /\ interrupts_enabled' = enable_interrupts
    /\ UNCHANGED main

NotWoken == [woken |-> FALSE]

Init ==
    /\ sched = AsyncScheduler_new
    /\ last = [op |-> "new"]
    /\ hist = [pushed |-> [p \in Priorities |-> <<>>],
               popped |-> [p \in Priorities |-> <<>>]]
    /\ woke = [i \in Slots |-> NotWoken]
    /\ interrupts_enabled = TRUE
    /\ main = Idle
    /\ multi = MultiPriorityExecutor_new
    /\ queues = [p \in Priorities |-> EventQueue_new]
    /\ uart = UartInterface_new

\* add_task(Task::with_priority(id, priority)); add_task(Task::new(id)) is
\* the case priority = Normal
Spawn(id, priority) ==
    LET r == spawn_task(sched, Task_with_priority(id, priority))
    IN  /\ sched' = r.s
        /\ last' = [op |-> "spawn_task", ret |-> r.ret]
        /\ UNCHANGED <<hist, woke>>
        /\ WholeCall
        /\ OtherStatics

\* post_event_with_priority(id, priority), at most `limit` accepted posts
Post(id, priority, limit) ==
    LET ev == Event_new(id, priority)
        r == post_event(sched, ev)
        target == IF r.ret THEN WakeTarget(sched, id) ELSE None
    IN  /\ r.ret => sched.event_counter < limit
        /\ sched' = r.s
        /\ last' = [op |-> "post_event", event |-> ev, ret |-> r.ret,
                    push_err |-> r.push_err, woken |-> target]
        /\ hist' = IF r.ret
                   THEN [hist EXCEPT !.pushed[priority] = Append(@, ev)]
                   ELSE hist
        /\ woke' = [i \in Slots |->
                      IF target = Some(i)
                      THEN [woken |-> TRUE, age |-> 0, displaced |-> FALSE]
                      ELSE IF target # None /\ woke[i] # NotWoken /\ woke[i].age = 0
                           THEN [woke[i] EXCEPT !.displaced = TRUE]
                           ELSE woke[i]]
        /\ WholeCall
        /\ OtherStatics

\* block_current(event_id)
Block(event_id) ==
    /\ sched' = block_current_task(sched, event_id)
    /\ last' = [op |-> "block_current_task", event_id |-> event_id,
                prev |-> sched.current_task,
                \* the id of the event accepted by the call just before this
                \* one while no task waited for it
                after_post |-> IF /\ last.op = "post_event" /\ last.ret
                                  /\ last.woken = None
                               THEN Some(last.event.id) ELSE None]
    /\ UNCHANGED <<hist, woke>>
    /\ WholeCall
    /\ OtherStatics

\* sleep_current(duration)
Sleep(duration) ==
    /\ sched' = sleep_current_task(sched, duration)
    /\ last' = [op |-> "sleep_current_task", duration |-> duration,
                prev |-> sched.current_task]
    /\ UNCHANGED <<hist, woke>>
    /\ WholeCall
    /\ OtherStatics

\* no call has panicked
NotPanicked == last.op # "panic"

\* sleep_current(duration) in a build with overflow checks, when the u32 sum
\* timer_base + duration overflows: the addition panics
SleepPanics(duration) ==
    /\ sched.current_task # None
    /\ sched.tasks[Unwrap(sched.current_task)] # None
    /\ AddOverflows(sched, duration)
    /\ last' = [op |-> "panic", duration |-> duration,
                prev |-> sched.current_task]
    /\ UNCHANGED <<sched, hist, woke>>
    /\ WholeCall
    /\ OtherStatics

\* update_global_timer(current_time)
UpdateTimer(current_time) ==
    /\ sched' = update_timer(sched, current_time)
    /\ last' = [op |-> "update_timer", woken |-> Due(sched, current_time)]
    /\ UNCHANGED <<hist, woke>>
    /\ WholeCall
    /\ OtherStatics

\* schedule()
Schedule ==
    LET r == schedule(sched)
    IN  /\ sched' = r.s
        /\ last' = [op |-> "schedule", ret |-> r.ret, path |-> r.path,
                    handled |-> r.handled,
                    prev |-> sched.current_task,
                    first_run |-> {i \in Slots : /\ woke[i] # NotWoken
                                                 /\ woke[i].age = 0
                                                 /\ ~woke[i].displaced
                                                 /\ HasState(r.s, i, Running)}]
        /\ hist' = [hist EXCEPT !.popped =
                       [p \in Priorities |->
                           @[p] \o SelectSeq(r.handled, LAMBDA e : e.priority = p)]]
        /\ woke' = [i \in Slots |->
                      IF woke[i] = NotWoken \/ HasState(r.s, i, Running)
                      THEN NotWoken
                      ELSE [woke[i] EXCEPT !.age = IF @ < 2 THEN @ + 1 ELSE @]]
        /\ WholeCall
        /\ OtherStatics

(***************************************************************************)
(* with_scheduler step by step: the main loop enters (disable_interrupts), *)
(* runs the closure on the SCHEDULER static, and leaves                    *)
(* (enable_interrupts).  schedule's closure takes two steps, its dispatch  *)
(* pass and its selection.  A handler runs whenever the flag lets it.      *)
(***************************************************************************)
MainCalls ==
    {[op |-> "spawn_task", id |-> id] : id \in TaskIds}
    \cup {[op |-> "block_current_task", event_id |-> e] : e \in EventIds}
    \cup {[op |-> "schedule"]}

\* the closure of a call run on s without interruption
CallResult(call, s) ==
    CASE call.op = "spawn_task" -> spawn_task(s, Task_new(call.id)).s
      [] call.op = "block_current_task" -> block_current_task(s, call.event_id)
      [] call.op = "schedule" -> schedule(s).s

\* with_scheduler up to the closure: disable_interrupts()
Enter(call) ==
    /\ main = Idle
    /\ interrupts_enabled' = disable_interrupts
    /\ main' = [pc |-> "entered", call |-> call, sched_at_entry |-> sched,
                enabled_at_entry |-> interrupts_enabled, interrupted |-> FALSE]
    /\ UNCHANGED <<sched, last, hist, woke>>
    /\ OtherStatics

\* the closure f(&mut SCHEDULER)
Body ==
    /\ main.pc \in {"entered", "dispatched"}
    /\ IF main.pc = "entered" /\ main.call.op = "schedule"
       THEN /\ sched' = process_events(sched).s
            /\ main' = [main EXCEPT !.pc = "dispatched"]
       ELSE /\ sched' = IF main.pc = "dispatched"
                        THEN ScheduleSelect(sched).s
                        ELSE CallResult(main.call, sched)
            /\ main' = [main EXCEPT !.pc = "done"]
    /\ UNCHANGED <<last, hist, woke, interrupts_enabled>>
    /\ OtherStatics

\* with_scheduler after the closure: enable_interrupts(), return
Exit ==
    /\ main.pc = "done"
    /\ interrupts_enabled' = enable_interrupts
    /\ main' = Idle
    /\ last' = [op |-> "with_scheduler", call |-> main.call]
    /\ UNCHANGED <<sched, hist, woke>>
    /\ OtherStatics

\* the caller of the API has disabled interrupts itself
ArchDisable ==
    /\ main = Idle
    /\ interrupts_enabled
    /\ interrupts_enabled' = disable_interrupts
    /\ UNCHANGED <<sched, last, hist, woke, main>>
    /\ OtherStatics

\* what a handler does to the main loop's call in progress
Interrupt ==
    main' = IF main = Idle THEN main ELSE [main EXCEPT !.interrupted = TRUE]

\* a handler calling interrupt_event(id), taken only with interrupts enabled
IsrPost(id) ==
    LET r == post_event(sched, Event_new(id, Critical))
    IN  /\ interrupts_enabled
        /\ r.ret => sched.event_counter < MaxPosts
        /\ sched' = r.s
        /\ interrupts_enabled' = enable_interrupts
        /\ Interrupt
        /\ UNCHANGED <<last, hist, woke>>
        /\ OtherStatics

\* the timer handler calling update_global_timer(current_time)
IsrTick(current_time) ==
    /\ interrupts_enabled
    /\ sched' = update_timer(sched, current_time)
    /\ interrupts_enabled' = enable_interrupts
    /\ Interrupt
    /\ UNCHANGED <<last, hist, woke>>
    /\ OtherStatics

(***************************************************************************)
(* The public API of the multi-priority executor, each call one step       *)
(* through with_multi_scheduler.                                           *)
(***************************************************************************)
\* add_priority_task(Task::with_priority(id, priority))
AddPriorityTask(id, priority) ==
    LET r == Multi_spawn_task(multi, Task_with_priority(id, priority))
    IN  /\ multi' = r.m
        /\ last' = [op |-> "add_priority_task", priority |-> priority,
                    ret |-> r.ret]
        /\ WholeCall
        /\ UNCHANGED <<sched, hist, woke, queues, uart>>

\* post_priority_event(id, priority), at most `limit` accepted per level
PostPriorityEvent(id, priority, limit) ==
    LET r == Multi_post_event(multi, Event_new(id, priority))
    IN  /\ r.ret => multi.schedulers[priority].event_counter < limit
        /\ multi' = r.m
        /\ last' = [op |-> "post_priority_event", priority |-> priority,
                    ret |-> r.ret]
        /\ WholeCall
        /\ UNCHANGED <<sched, hist, woke, queues, uart>>

\* schedule_with_priority()
ScheduleWithPriority ==
    LET r == run_cycle(multi)
    IN  /\ multi' = r.m
        /\ last' = [op |-> "run_cycle", ret |-> r.ret]
        /\ WholeCall
        /\ UNCHANGED <<sched, hist, woke, queues, uart>>

(***************************************************************************)
(* The API of simple_async_scheduler.  hist records, per queue, the events *)
(* accepted and the events handled.                                        *)
(***************************************************************************)
\* post_event_with_priority(id, priority), at most `limit` accepted posts
SimplePost(id, priority, limit) ==
    LET ev == Event_new(id, priority)
        r == simple_post_event(queues, ev)
        accepted == Len(hist.pushed[Critical]) + Len(hist.pushed[High])
                        + Len(hist.pushed[Normal]) + Len(hist.pushed[Low])
    IN  /\ r.ret => accepted < limit
        /\ queues' = r.qs
        /\ last' = [op |-> "simple_post_event", event |-> ev, ret |-> r.ret]
        /\ hist' = IF r.ret
                   THEN [hist EXCEPT !.pushed[priority] = Append(@, ev)]
                   ELSE hist
        /\ UNCHANGED <<sched, woke, interrupts_enabled, main, multi, uart>>

\* process_events()
SimpleProcess ==
    LET r == simple_process_events(queues)
    IN  /\ queues' = r.qs
        /\ last' = [op |-> "simple_process_events", ret |-> r.processed,
                    handled |-> r.handled]
        /\ hist' = IF r.handled = None THEN hist
                   ELSE [hist EXCEPT !.popped[Unwrap(r.handled).priority] =
                            Append(@, Unwrap(r.handled))]
        /\ UNCHANGED <<sched, woke, interrupts_enabled, main, multi, uart>>

(***************************************************************************)
(* The UART receiving bytes.                                               *)
(***************************************************************************)
\* the bytes fed: h, e and ?, the two terminators and the two backspaces
UartBytes == {104, 101, 63, LF, CR, BS, DEL}

\* uart.process_byte(byte)
ProcessByte(byte) ==
    LET r == process_byte(uart, byte)
    IN  /\ uart' = r.u
        /\ last' = [op |-> "process_byte", byte |-> byte, ret |-> r.ret]
        /\ UNCHANGED <<sched, hist, woke, interrupts_enabled, main, multi,
                       queues>>

(***************************************************************************)
(* Spec: the public API of the single scheduler with tasks of the default  *)
(* priority: add_task(Task::new(id)), post_event(id) (a Normal event),     *)
(* block_current, sleep_current, update_global_timer, schedule.            *)
(***************************************************************************)
Next ==
    \/ \E id \in TaskIds : Spawn(id, Normal)
    \/ \E id \in EventIds : Post(id, Normal, MaxPosts)
    \/ \E event_id \in EventIds : Block(event_id)
    \/ \E duration \in Durations : Sleep(duration)
    \/ \E current_time \in Ticks : UpdateTimer(current_time)
    \/ Schedule

Spec == Init /\ [][Next]_vars

(***************************************************************************)
(* SpecTimer: sleeping and the timer over the whole range of the tick      *)
(* counter, wrap included; nothing runs after a panic.                     *)
(***************************************************************************)
NextTimer ==
    \/ \E id \in TaskIds : NotPanicked /\ Spawn(id, Normal)
    \* without overflow checks the sum wraps, with them it panics
    \/ \E duration \in 1..MaxWrapDuration : NotPanicked /\ Sleep(duration)
    \/ \E duration \in 1..MaxWrapDuration : NotPanicked /\ SleepPanics(duration)
    \/ \E current_time \in 0..(U32_MODULUS - 1) :
          NotPanicked /\ UpdateTimer(current_time)
    \/ NotPanicked /\ Schedule

SpecTimer == Init /\ [][NextTimer]_vars

(***************************************************************************)
(* SpecPriority: tasks of different priorities in the single scheduler     *)
(* (add_task(Task::with_priority(..))), blocking and events, no timer.     *)
(***************************************************************************)
NextPriority ==
    \/ \E id \in TaskIds, priority \in {High, Low} : Spawn(id, priority)
    \/ \E id \in EventIds : Post(id, Normal, MaxPosts)
    \/ \E event_id \in EventIds : Block(event_id)
    \/ Schedule

SpecPriority == Init /\ [][NextPriority]_vars

(***************************************************************************)
(* SpecRings: the four event rings under post_event_with_priority at every *)
(* priority and the dispatch pass at the top of schedule.                  *)
(***************************************************************************)
NextRings ==
    \/ \E id \in EventIds, priority \in Priorities : Post(id, priority, MaxRingPosts)
    \/ Schedule

SpecRings == Init /\ [][NextRings]_vars

(***************************************************************************)
(* SpecIrq: the main loop's calls step by step through with_scheduler,     *)
(* with handlers posting events and advancing the timer.                   *)
(***************************************************************************)
NextIrq ==
    \/ \E call \in MainCalls : Enter(call)
    \/ Body
    \/ Exit
    \/ ArchDisable
    \/ \E id \in EventIds : IsrPost(id)
    \/ \E current_time \in Ticks : IsrTick(current_time)

SpecIrq == Init /\ [][NextIrq]_vars

(***************************************************************************)
(* SpecMulti: the multi-priority executor with tasks and events at two of  *)
(* its four levels, High and Low.                                          *)
(***************************************************************************)
NextMulti ==
    \/ \E id \in TaskIds, priority \in {High, Low} :
          AddPriorityTask(id, priority)
    \/ \E id \in EventIds, priority \in {High, Low} :
          PostPriorityEvent(id, priority, MaxPosts)
    \/ ScheduleWithPriority

SpecMulti == Init /\ [][NextMulti]_vars

(***************************************************************************)
(* SpecSimple: simple_async_scheduler, posts at every priority and         *)
(* process_events.                                                         *)
(***************************************************************************)
NextSimple ==
    \/ \E id \in EventIds, priority \in Priorities :
          SimplePost(id, priority, MaxSimplePosts)
    \/ SimpleProcess

SpecSimple == Init /\ [][NextSimple]_vars

(***************************************************************************)
(* SpecUart: one UartInterface fed byte by byte.                           *)
(***************************************************************************)
NextUart == \E byte \in UartBytes : ProcessByte(byte)

SpecUart == Init /\ [][NextUart]_vars


(***************************************************************************)
(* Properties                                                              *)
(***************************************************************************)
Occupied(s) == {i \in Slots : s.tasks[i] # None}

RunningSlots(s) == {i \in Slots : HasState(s, i, Running)}

\* C1: at most one task of the task table is in state Running, after any
\* sequence of API calls on tasks spawned Ready.
C1_SingleRunning == Cardinality(RunningSlots(sched)) <= 1

\* a hot-slot dispatch that took over from another task, which is Ready again
C1_Witness ==
    /\ last.op = "schedule" /\ last.path = "hot"
    /\ last.prev # None /\ last.prev # sched.current_task
    /\ HasState(sched, Unwrap(last.prev), Ready)
    /\ Cardinality(RunningSlots(sched)) = 1

\* C2: current_task = Some(i) exactly when slot i is occupied and its task
\* is Running.
C2_CurrentIffRunning ==
    \A i \in Slots : (sched.current_task = Some(i)) <=> HasState(sched, i, Running)

\* block has just moved the Running task to WaitingForEvent: no current,
\* nothing Running
C2_Witness ==
    /\ last.op = "block_current_task"
    /\ sched.current_task = None
    /\ \E i \in Slots : sched.tasks[i] # None
                        /\ StateOf(sched, i).tag = "WaitingForEvent"
    /\ RunningSlots(sched) = {}

\* C3 (as claimed): a waiter woken by an accepted post is Running no later
\* than the return of the second schedule call after the post.
C3_RunningBySecondSchedule ==
    \A i \in Slots : woke[i] # NotWoken => woke[i].age < 2

\* C3 (amended): a waiter woken by an accepted post is Running at the return
\* of the first schedule call after the post, unless a later post woke
\* another waiter (taking the hot slot) before that call.
C3_RunningAtFirstSchedule ==
    \A i \in Slots : (woke[i] # NotWoken /\ woke[i].age >= 1) => woke[i].displaced

\* a schedule call has dispatched a waiter woken since the previous call
C3_Witness ==
    /\ last.op = "schedule"
    /\ last.first_run # {}
    /\ last.first_run = RunningSlots(sched)

\* C4: an accepted post of id e with tasks waiting for e makes exactly the
\* lowest-slot waiter Ready; the other waiters for e and the tasks waiting
\* for other ids are unchanged.
C4_OneWakePerEvent ==
    [][(last'.op = "post_event" /\ last'.ret) =>
        LET e == last'.event.id
            waiters == {i \in Slots : HasState(sched, i, WaitingForEvent(e))}
            blocked == {i \in Occupied(sched) :
                           StateOf(sched, i).tag = "WaitingForEvent"}
        IN  /\ waiters # {} =>
                /\ HasState(sched', Min(waiters), Ready)
                /\ \A i \in waiters \ {Min(waiters)} :
                       sched'.tasks[i] = sched.tasks[i]
            /\ \A i \in blocked \ waiters : sched'.tasks[i] = sched.tasks[i]
      ]_vars

\* a post has woken one of two tasks waiting for its id
C4_Witness ==
    /\ last.op = "post_event" /\ last.ret /\ last.woken # None
    /\ HasState(sched, Unwrap(last.woken), Ready)
    /\ \E j \in Slots : /\ j > Unwrap(last.woken)
                        /\ HasState(sched, j, WaitingForEvent(last.event.id))

\* C5: the task a full rescan makes Running has the numerically lowest
\* priority among the tasks Ready at that moment (the tasks that were Ready
\* and the demoted current task).
C5_RescanPicksHighestPriority ==
    [][(last'.op = "schedule" /\ last'.path = "rescan"
        /\ sched'.current_task # None) =>
        LET candidates == {i \in Occupied(sched) :
                              StateOf(sched, i) \in {Ready, Running}}
            chosen == Unwrap(sched'.current_task)
        IN  \A i \in candidates :
                Unwrap(sched.tasks[chosen]).priority
                    <= Unwrap(sched.tasks[i]).priority
      ]_vars

\* the round-robin case of C6: exactly three tasks, of equal priority, each
\* Ready or Running, and an empty hot slot
RoundRobinCase(s) ==
    /\ Cardinality(Occupied(s)) = 3
    /\ \A i, j \in Occupied(s) :
           Unwrap(s.tasks[i]).priority = Unwrap(s.tasks[j]).priority
    /\ \A i \in Occupied(s) : StateOf(s, i) \in {Ready, Running}
    /\ s.next_task = None

\* the task after current in cyclic slot order (the lowest one when current
\* is None)
SuccessorOfCurrent(s) ==
    LET later == {i \in Occupied(s) :
                     s.current_task # None /\ i > Unwrap(s.current_task)}
    IN  IF later # {} THEN Min(later) ELSE Min(Occupied(s))

\* C6 (as claimed): with three Ready tasks of equal priority and no events,
\* blocking or sleeping, every schedule call dispatches the task after
\* current in cyclic slot order: a, b, c, a, b, c, ...
C6_RoundRobinEveryCall ==
    [][(last'.op = "schedule" /\ RoundRobinCase(sched)) =>
        sched'.current_task = Some(SuccessorOfCurrent(sched))
      ]_vars

\* C6 (amended): in that case a schedule call made with needs_reschedule
\* set or no current task dispatches the task after current in cyclic slot
\* order; a call made with needs_reschedule clear and a current task
\* returns the current task again.
C6_RoundRobinOnRescan ==
    [][(last'.op = "schedule" /\ RoundRobinCase(sched)) =>
        IF sched.needs_reschedule \/ sched.current_task = None
        THEN /\ sched'.current_task = Some(SuccessorOfCurrent(sched))
             /\ HasState(sched', SuccessorOfCurrent(sched), Running)
        ELSE sched'.current_task = sched.current_task
      ]_vars

\* a rescan has wrapped around from the last of three tasks to the first
C6_Witness ==
    /\ last.op = "schedule" /\ last.path = "rescan"
    /\ RoundRobinCase(sched)
    /\ last.prev # None
    /\ \A i \in Occupied(sched) : i <= Unwrap(last.prev)
    /\ sched.current_task = Some(Min(Occupied(sched)))
    /\ Min(Occupied(sched)) # Unwrap(last.prev)

\* the events a ring holds, oldest first
RingContents(q) ==
    [k \in 1..(q.tail - q.head) |-> q.buffer[RingIndex(q.head + k - 1)]]

\* C7: per ring, the events pop returned are the events push accepted, in
\* push order, and the accepted events not yet popped are still in the ring
\* in that order.
C7_RingFifo ==
    \A p \in Priorities :
        LET pushed == hist.pushed[p]
            popped == hist.popped[p]
        IN  /\ Len(popped) <= Len(pushed)
            /\ popped = SubSeq(pushed, 1, Len(popped))
            /\ RingContents(sched.events[p])
                   = SubSeq(pushed, Len(popped) + 1, Len(pushed))

\* a ring has wrapped around: more events than its capacity, of different
\* ids, have gone through it
C7_Witness ==
    \E p \in Priorities :
        /\ Len(hist.popped[p]) > MAX_EVENTS_PER_PRIORITY
        /\ \E k \in 1..(Len(hist.popped[p]) - 1) :
               hist.popped[p][k].id # hist.popped[p][k + 1].id

C9_OnePerRingInPriorityOrder ==
    [][last'.op = "schedule" =>
        LET nonempty == {p \in Priorities :
                            sched.events[p].head # sched.events[p].tail}
            handled == last'.handled
        IN  /\ Len(handled) = Cardinality(nonempty)
            /\ Len(handled) <= 4
            /\ \A k \in 1..Len(handled) :
                   /\ handled[k].priority \in nonempty
                   /\ handled[k] = RingContents(sched.events[handled[k].priority])[1]
            /\ \A k, l \in 1..Len(handled) :
                   k < l => handled[k].priority < handled[l].priority
            /\ \A p \in nonempty :
                   /\ sched'.events[p].head = sched.events[p].head + 1
                   /\ sched'.events[p].tail = sched.events[p].tail
            /\ \A p \in Priorities \ nonempty :
                   sched'.events[p] = sched.events[p]
      ]_vars

\* one pass has popped an event from each of the four rings, the Critical
\* one first
C9_Witness ==
    /\ last.op = "schedule"
    /\ Len(last.handled) = 4
    /\ last.handled[1].priority = Critical

\* C10: a task in Sleeping(d) is Ready right after an update_timer(t) with
\* t >= d and is left in Sleeping(d) by every other call.
C10_SleepExpiry ==
    [][\A i \in Occupied(sched) :
          StateOf(sched, i).tag = "Sleeping" =>
              IF last'.op = "update_timer"
                 /\ sched'.timer_base >= StateOf(sched, i).wake_time
              THEN HasState(sched', i, Ready)
              ELSE sched'.tasks[i] = sched.tasks[i]
      ]_vars

\* an update_timer has woken one sleeper and left a later one asleep
C10_Witness ==
    /\ last.op = "update_timer"
    /\ \E i \in last.woken : HasState(sched, i, Ready)
    /\ \E j \in Occupied(sched) :
           /\ StateOf(sched, j).tag = "Sleeping"
           /\ StateOf(sched, j).wake_time > sched.timer_base

\* C11: with_scheduler returns with the interrupt flag as it was on entry;
\* a call made while interrupts are disabled returns with them disabled.
C11_InterruptStateRestored ==
    [][(main.pc = "done" /\ main'.pc = "idle")
        => interrupts_enabled' = main.enabled_at_entry]_vars

\* C12: a call of the main loop started with interrupts enabled runs its
\* closure with interrupts disabled, no handler runs between its steps, the
\* scheduler it leaves is the one the uninterrupted call makes of the
\* scheduler at entry, and at most one task is Running, the current one.
C12_CallsAreAtomic ==
    /\ (main # Idle /\ main.enabled_at_entry)
         => /\ ~interrupts_enabled
            /\ ~main.interrupted
            /\ main.pc = "done"
                 => sched = CallResult(main.call, main.sched_at_entry)
    /\ Cardinality(RunningSlots(sched)) <= 1
    /\ \A i \in Slots :
          (sched.current_task = Some(i)) <=> HasState(sched, i, Running)

\* a schedule call that began with interrupts enabled and events pending
\* has run both its steps and dispatched a task, after handlers posted
C12_Witness ==
    /\ main # Idle /\ main.pc = "done" /\ main.call.op = "schedule"
    /\ main.enabled_at_entry
    /\ main.sched_at_entry.event_counter > 0
    /\ main.sched_at_entry.next_task # None
    /\ sched.current_task = main.sched_at_entry.next_task
    /\ sched # main.sched_at_entry

C14_SpawnLowestSlotOrError ==
    [][(last'.op = "spawn_task") =>
        LET free == Slots \ Occupied(sched)
        IN  IF free = {}
            THEN ~last'.ret.ok /\ sched' = sched
            ELSE /\ last'.ret = [ok |-> TRUE, slot |-> Min(free)]
                 /\ HasState(sched', Min(free), Ready)
                 /\ sched'.active_tasks = sched.active_tasks + 1
                 /\ sched'.needs_reschedule
                 /\ \A j \in Slots \ {Min(free)} :
                        sched'.tasks[j] = sched.tasks[j]
      ]_vars

\* a spawn into the full table was refused and did not set needs_reschedule
C14_Witness ==
    /\ last.op = "spawn_task" /\ ~last.ret.ok
    /\ Occupied(sched) = Slots
    /\ ~sched.needs_reschedule
    /\ sched.active_tasks = MAX_TASKS

\* C15: block_current_task(e) moves the Running task to WaitingForEvent(e)
\* and clears current_task, changing no other task; with no task Running it
\* changes nothing at all.
C15_BlockMovesCurrentOrNothing ==
    [][(last'.op = "block_current_task") =>
        IF RunningSlots(sched) = {}
        THEN sched' = sched
        ELSE \A c \in RunningSlots(sched) :
                /\ HasState(sched', c, WaitingForEvent(last'.event_id))
                /\ sched'.current_task = None
                /\ \A j \in Slots \ {c} : sched'.tasks[j] = sched.tasks[j]
      ]_vars

\* block was called with tasks in the table and none of them current
C15_Witness ==
    /\ last.op = "block_current_task" /\ last.prev = None
    /\ Occupied(sched) # {}
    /\ ~sched.needs_reschedule
    /\ \E i \in Occupied(sched) : StateOf(sched, i).tag = "Sleeping"

\* C16: sleep_current_task(d) at tick t moves the Running task to
\* Sleeping(t + d), clears current_task and sets needs_reschedule, changing
\* no other task; schedule neither changes nor returns a Sleeping task.
C16_SleepSetsDeadline ==
    [][/\ (last'.op = "sleep_current_task") =>
            \A c \in RunningSlots(sched) :
                /\ HasState(sched', c,
                            Sleeping(sched.timer_base + last'.duration))
                /\ sched'.current_task = None
                /\ sched'.needs_reschedule
                /\ \A j \in Slots \ {c} : sched'.tasks[j] = sched.tasks[j]
       /\ (last'.op = "schedule") =>
            \A i \in Occupied(sched) :
                StateOf(sched, i).tag = "Sleeping"
                    => /\ sched'.tasks[i] = sched.tasks[i]
                       /\ sched'.current_task # Some(i)
                       /\ last'.ret # sched'.tasks[i]
      ]_vars

\* the Running task went to sleep at a tick after 0
C16_Witness ==
    /\ last.op = "sleep_current_task" /\ last.prev # None
    /\ sched.timer_base > 0
    /\ HasState(sched, Unwrap(last.prev),
                Sleeping(sched.timer_base + last.duration))
    /\ sched.current_task = None

\* C17: schedule returns None exactly when no task is Ready or Running
\* after its dispatch pass, and then current_task is None; otherwise it
\* returns the task of the one slot that is Running when it returns.
C17_ScheduleReturn ==
    [][(last'.op = "schedule") =>
        LET live == {i \in Occupied(sched) :
                        StateOf(sched, i) \in {Ready, Running}}
        IN  /\ (last'.ret = None) <=> (live = {})
            /\ (last'.ret = None) => sched'.current_task = None
            /\ (last'.ret # None) =>
                  \E c \in Slots : /\ sched'.current_task = Some(c)
                                   /\ RunningSlots(sched') = {c}
                                   /\ last'.ret = sched'.tasks[c]
      ]_vars

\* schedule returned None with every task of the table blocked or asleep
C17_Witness ==
    /\ last.op = "schedule" /\ last.ret = None
    /\ sched.current_task = None
    /\ \E i \in Occupied(sched) : StateOf(sched, i).tag = "WaitingForEvent"
    /\ \E j \in Occupied(sched) : StateOf(sched, j).tag = "Sleeping"

\* C18: when next_task is Some(i) after an operation, slot i is occupied
\* and its task is Ready.
C18_HotSlotIsReady ==
    \A i \in Slots : sched.next_task = Some(i) => HasState(sched, i, Ready)

\* the hot slot is still set, and its task Ready, after the task that was
\* Running went to sleep
C18_Witness ==
    /\ sched.next_task # None
    /\ HasState(sched, Unwrap(sched.next_task), Ready)
    /\ last.op = "sleep_current_task" /\ last.prev # None

\* C19: in each of the four rings tail - head lies in 0..N, and the storage
\* indices push and pop use, tail % N and head % N, lie in 0..N-1.
C19_RingBounds ==
    \A p \in Priorities :
        LET q == sched.events[p]
        IN  /\ q.tail - q.head \in 0..MAX_EVENTS_PER_PRIORITY
            /\ RingIndex(q.tail) \in 0..(MAX_EVENTS_PER_PRIORITY - 1)
            /\ RingIndex(q.head) \in 0..(MAX_EVENTS_PER_PRIORITY - 1)
            /\ \A k \in q.head..(q.tail - 1) :
                   q.buffer[RingIndex(k)] # UNINIT

\* a ring is full after its counters have passed the capacity
C19_Witness ==
    \E p \in Priorities :
        LET q == sched.events[p]
        IN  /\ q.tail - q.head = MAX_EVENTS_PER_PRIORITY
            /\ q.head > 0
            /\ q.tail > MAX_EVENTS_PER_PRIORITY

\* C20: active_tasks is the number of occupied slots, and so is the first
\* element of stats().
C20_ActiveCount ==
    /\ sched.active_tasks = Cardinality(Occupied(sched))
    /\ stats(sched)[1] = Cardinality(Occupied(sched))

\* two tasks are counted after one of them blocked
C20_Witness ==
    /\ stats(sched)[1] = 2
    /\ Cardinality(Occupied(sched)) = 2
    /\ last.op = "block_current_task" /\ last.prev # None

\* the number of posts the rings have accepted so far
AcceptedPosts(h) ==
    Len(h.pushed[Critical]) + Len(h.pushed[High])
        + Len(h.pushed[Normal]) + Len(h.pushed[Low])

\* C21: event_counter grows by exactly one on an accepted post and is left
\* alone by a rejected post and by every other operation, the dispatch pass
\* included; it is the number of posts accepted so far.
C21_EventCounter ==
    [][/\ sched'.event_counter =
            IF last'.op = "post_event" /\ last'.ret
            THEN sched.event_counter + 1
            ELSE sched.event_counter
       /\ sched'.event_counter = AcceptedPosts(hist')
      ]_vars

\* a post was rejected by the full ring after two posts were accepted
C21_Witness ==
    /\ last.op = "post_event" /\ ~last.ret
    /\ sched.event_counter = MAX_EVENTS_PER_PRIORITY
    /\ AcceptedPosts(hist) = MAX_EVENTS_PER_PRIORITY

\* C22: a task's wake_count grows by exactly one on each step that takes
\* the task from WaitingForEvent or Sleeping to Ready, and on no other step.
C22_WakeCountCountsWakes ==
    [][\A i \in Occupied(sched) :
          LET before == Unwrap(sched.tasks[i])
              after == Unwrap(sched'.tasks[i])
              woken == /\ before.state.tag \in {"WaitingForEvent", "Sleeping"}
                       /\ after.state = Ready
          IN  wake_count(after) =
                  wake_count(before) + (IF woken THEN 1 ELSE 0)
      ]_vars

\* the tasks of level p that are Running
RunningAt(m, p) == {i \in Slots : HasState(m.schedulers[p], i, Running)}

\* C23: across the four schedulers of the MultiPriorityExecutor together
\* at most one task is Running, after any sequence of spawn_task,
\* post_event and run_cycle.
C23_MultiSingleRunning ==
    Cardinality({pi \in Priorities \X Slots :
                    pi[2] \in RunningAt(multi, pi[1])}) <= 1

\* the priorities whose queue holds an event
NonEmptyQueues(qs) == {p \in Priorities : qs[p] # <<>>}

\* the number of events in the four queues together
Queued(qs) ==
    Len(qs[Critical]) + Len(qs[High]) + Len(qs[Normal]) + Len(qs[Low])

\* C24: a process_events call of simple_async_scheduler handles at most one
\* event, an event of the highest-priority queue that is not empty, and
\* leaves the other queues as they are; so events posted Low, Normal, High,
\* Critical are consumed Critical, High, Normal, Low, and an event posted
\* into empty queues is consumed by the next call.
C24_OneEventHighestQueue ==
    [][(last'.op = "simple_process_events") =>
        /\ last'.ret <= 1
        /\ (last'.ret = 1) <=> (last'.handled # None)
        /\ NonEmptyQueues(queues) # {} =>
              LET p == Min(NonEmptyQueues(queues))
              IN  /\ last'.handled # None
                  /\ Unwrap(last'.handled).priority = p
                  /\ \E k \in 1..Len(queues[p]) :
                        queues[p][k] = Unwrap(last'.handled)
                  /\ Len(queues'[p]) = Len(queues[p]) - 1
                  /\ \A o \in Priorities \ {p} : queues'[o] = queues[o]
      ]_vars

\* one event was posted at each priority and three calls have consumed the
\* Critical, the High and the Normal one, leaving the Low one
C24_Witness ==
    /\ last.op = "simple_process_events"
    /\ last.handled # None /\ Unwrap(last.handled).priority = Normal
    /\ \A p \in Priorities : Len(hist.pushed[p]) = 1
    /\ \A p \in {Critical, High, Normal} : Len(hist.popped[p]) = 1
    /\ queues[Low] # <<>>

\* C25: with n events in the four queues and no further post, exactly the
\* next n process_events calls return 1 and each later call returns 0 with
\* all four queues empty: a call returns 1 and removes one event when any
\* queue holds one, and returns 0 and changes nothing when none does.
C25_DrainCount ==
    [][(last'.op = "simple_process_events") =>
        IF Queued(queues) > 0
        THEN last'.ret = 1 /\ Queued(queues') = Queued(queues) - 1
        ELSE last'.ret = 0 /\ queues' = queues /\ Queued(queues') = 0
      ]_vars

\* every accepted event has been handled and a further call returned 0
C25_Witness ==
    /\ last.op = "simple_process_events" /\ last.ret = 0
    /\ Queued(queues) = 0
    /\ \E p \in Priorities : Len(hist.pushed[p]) = MAX_EVENTS
    /\ \A p \in Priorities : Len(hist.popped[p]) = Len(hist.pushed[p])

\* C26: when a command line has been ended by '\r', the call that
\* processes the '\n' that follows returns Some(the parsed command).
C26_CrLfReturnsCommand ==
    [][(/\ last.op = "process_byte" /\ last.byte = CR /\ last.ret # None
        /\ last'.op = "process_byte" /\ last'.byte = LF)
        => last'.ret = last.ret]_vars

\* the command that the line held in input_buffer spells
LineCommand(input_buffer) ==
    MatchCommand([k \in 1..Len(trim(input_buffer)) |->
                     to_lowercase(trim(input_buffer)[k])])

\* C27: process_byte returns None for a printable byte and for a backspace;
\* a backspace removes the last buffered byte, or nothing from an empty
\* buffer; the command returned at the terminator is the one the bytes
\* left in the buffer spell.
C27_LineEditing ==
    [][(last'.op = "process_byte") =>
        /\ last'.byte \in (SPACE..TILDE) \cup {BS, DEL} => last'.ret = None
        /\ last'.byte \in {BS, DEL} =>
              uart'.input_buffer =
                  IF uart.input_buffer = <<>> THEN <<>>
                  ELSE SubSeq(uart.input_buffer, 1, Len(uart.input_buffer) - 1)
        /\ (last'.byte \in {LF, CR} /\ uart.input_buffer # <<>>) =>
              last'.ret = Some(LineCommand(uart.input_buffer))
      ]_vars

\* C28: no lost wake-up when the event arrives first: an event with id e is
\* accepted while no task waits for e, the running task then blocks on e, and
\* the next schedule pops that event in its dispatch pass; on return of that
\* schedule the task is no longer WaitingForEvent(e) (it was made Ready, and
\* may already be Running).
C28_EventFirstWakes ==
    [][(/\ last.op = "block_current_task" /\ last.prev # None
        /\ last.after_post = Some(last.event_id)
        /\ last'.op = "schedule"
        /\ \E k \in DOMAIN last'.handled :
               last'.handled[k].id = last.event_id)
       => StateOf(sched', Unwrap(last.prev)) \in {Ready, Running}]_vars

\* C29: hot-slot fast path postcondition: when schedule dispatches the task
\* named by the hot slot, then on return that task is Running, current_task
\* names it, every task that was Running before is Ready, the hot slot is None
\* and needs_reschedule is false.
C29_HotPathPostcondition ==
    [][(last'.op = "schedule" /\ last'.path = "hot")
       => LET dispatch == process_events(sched).s
              next_id == Unwrap(dispatch.next_task)
          IN  /\ HasState(sched', next_id, Running)
              /\ sched'.current_task = Some(next_id)
              /\ \A i \in RunningSlots(sched) \ {next_id} :
                     HasState(sched', i, Ready)
              /\ sched'.next_task = None
              /\ sched'.needs_reschedule = FALSE]_vars

\* C30: steady state: a schedule call made with the hot slot empty,
\* needs_reschedule false and current_task = Some(i) returns the task in slot
\* i and changes no task, nor current_task, the hot slot or needs_reschedule;
\* only its dispatch pass may shorten the rings (each ring keeps a suffix of
\* what it held).
C30_SteadyState ==
    [][(/\ last'.op = "schedule"
        /\ sched.next_task = None
        /\ ~sched.needs_reschedule
        /\ sched.current_task # None)
       => /\ last'.ret = sched.tasks[Unwrap(sched.current_task)]
          /\ last'.ret # None
          /\ sched'.tasks = sched.tasks
          /\ sched'.current_task = sched.current_task
          /\ sched'.next_task = sched.next_task
          /\ sched'.needs_reschedule = sched.needs_reschedule
          /\ \A p \in Priorities :
                LET before == RingContents(sched.events[p])
                    after == RingContents(sched'.events[p])
                IN  /\ Len(after) <= Len(before)
                    /\ after = SubSeq(before, Len(before) - Len(after) + 1,
                                      Len(before))]_vars

\* a steady-state schedule whose dispatch pass popped an event, with another
\* task Ready that a rescan would have dispatched
C30_Witness ==
    /\ last.op = "schedule" /\ last.path = "steady"
    /\ last.handled # <<>>
    /\ sched.current_task # None
    /\ HasState(sched, Unwrap(sched.current_task), Running)
    /\ \E i \in Slots : HasState(sched, i, Ready)

\* the slots woken by a post since the last schedule whose place in the hot
\* slot a later wake has taken
Displaced ==
    {a \in Slots : woke[a] # NotWoken /\ woke[a].age = 0 /\ woke[a].displaced}

\* C31: hot-slot displacement keeps the displaced task Ready: when two posts
\* made before the next schedule wake two different waiters, A then B, the hot
\* slot names B (the last one woken), A is Ready and not named by the hot
\* slot, and a full rescan can still select A.
C31_DisplacedStaysReady ==
    \A a \in Displaced :
        /\ HasState(sched, a, Ready)
        /\ sched.next_task # None
        /\ LET b == Unwrap(sched.next_task)
           IN  /\ b # a
               /\ woke[b] # NotWoken /\ woke[b].age = 0 /\ ~woke[b].displaced
               /\ HasState(sched, b, Ready)
        /\ \E start \in Slots : FirstReady(sched.tasks, start) = Some(a)

\* a post has just woken a second waiter and displaced the first
C31_Witness ==
    /\ last.op = "post_event" /\ last.woken # None
    /\ Displaced # {}
    /\ sched.next_task = last.woken

\* C32: update_timer changes only timer_base, the state of the Sleeping
\* tasks whose deadline has passed (to Ready) and needs_reschedule (set when
\* a task was woken): the hot slot, current_task, the four rings,
\* event_counter, and every Ready, Running, WaitingForEvent and not-yet-due
\* Sleeping task are as before.
C32_TimerFrame ==
    [][(last'.op = "update_timer")
       => /\ sched'.next_task = sched.next_task
          /\ sched'.current_task = sched.current_task
          /\ sched'.events = sched.events
          /\ sched'.event_counter = sched.event_counter
          /\ sched'.active_tasks = sched.active_tasks
          /\ \A i \in Slots :
                IF /\ sched.tasks[i] # None
                   /\ StateOf(sched, i).tag = "Sleeping"
                   /\ StateOf(sched, i).wake_time <= sched'.timer_base
                THEN sched'.tasks[i] =
                         Some([Unwrap(sched.tasks[i]) EXCEPT !.state = Ready])
                ELSE sched'.tasks[i] = sched.tasks[i]
          /\ sched'.needs_reschedule =
                (sched.needs_reschedule \/ sched'.tasks # sched.tasks)]_vars

\* update_timer has woken a sleeper while the hot slot named another task
\* and a further task was left asleep or waiting for an event
C32_Witness ==
    /\ last.op = "update_timer" /\ last.woken # {}
    /\ sched.next_task # None
    /\ Unwrap(sched.next_task) \notin last.woken
    /\ \E i \in Slots : sched.tasks[i] # None
                         /\ StateOf(sched, i).tag \in {"Sleeping", "WaitingForEvent"}

\* C33: sleep deadlines are correct under 32-bit arithmetic: after
\* sleep_current_task(duration) at tick t, an update_timer whose tick is fewer
\* than duration ticks after t (counted modulo the width of the counter) does
\* not make the task Ready, also when t + duration wraps.
C33_NoEarlyWake ==
    [][(/\ last.op = "sleep_current_task" /\ last.prev # None
        /\ last'.op = "update_timer"
        /\ (sched'.timer_base - sched.timer_base) % U32_MODULUS < last.duration)
       => Unwrap(last.prev) \notin last'.woken]_vars

\* C34: no cross-priority event starvation in the single scheduler: every
\* schedule call moves each pending event one place towards the head of its
\* ring and pops the event at the head, and a post to one ring leaves the
\* places in the other three rings as they are; so an event accepted with k
\* events ahead of it in its ring is popped during the (k+1)-th schedule call
\* after the post, whatever is posted to the other rings.
C34_NoCrossPriorityStarvation ==
    [][/\ (last'.op = "schedule") =>
            \A p \in Priorities :
                LET before == RingContents(sched.events[p])
                    after == RingContents(sched'.events[p])
                IN  /\ Len(after) = IF before = <<>> THEN 0 ELSE Len(before) - 1
                    /\ \A j \in 1..Len(before) :
                          IF j = 1
                          THEN \E k \in DOMAIN last'.handled :
                                  /\ last'.handled[k] = before[1]
                                  /\ last'.handled[k].priority = p
                          ELSE after[j - 1] = before[j]
       /\ (last'.op = "post_event") =>
            \A p \in Priorities \ {last'.event.priority} :
                RingContents(sched'.events[p]) = RingContents(sched.events[p])
      ]_vars

\* a schedule call has popped a Low event while the Critical ring, which
\* held events too, still holds one, and a further Low event moved up
C34_Witness ==
    /\ last.op = "schedule"
    /\ \E k \in DOMAIN last.handled : last.handled[k].priority = Low
    /\ \E k \in DOMAIN last.handled : last.handled[k].priority = Critical
    /\ RingContents(sched.events[Critical]) # <<>>
    /\ RingContents(sched.events[Low]) # <<>>

\* the level p of the executor holds a Ready or Running task
HoldsRunnable(m, p) ==
    \E i \in Slots : \/ HasState(m.schedulers[p], i, Ready)
                      \/ HasState(m.schedulers[p], i, Running)

\* C35: priority dominance of the executor: run_cycle returns a task of
\* level P only if no scheduler of a higher level holds a Ready or Running
\* task (before and after the call); it returns None only when no level holds
\* one; the returned task's priority field is the level of the scheduler it
\* came from, where it is the Running current task.
C35_PriorityDominance ==
    [][(last'.op = "run_cycle")
       => IF last'.ret = None
          THEN \A p \in Priorities :
                  ~HoldsRunnable(multi, p) /\ ~HoldsRunnable(multi', p)
          ELSE LET task == Unwrap(last'.ret)
                   level == multi'.current_priority
                   from == multi'.schedulers[level]
               IN  /\ task.priority = level
                   /\ task.state = Running
                   /\ from.current_task # None
                   /\ from.tasks[Unwrap(from.current_task)] = Some(task)
                   /\ \A q \in Priorities :
                         q < level => /\ ~HoldsRunnable(multi, q)
                                      /\ ~HoldsRunnable(multi', q)]_vars

\* run_cycle has returned a High task while the Low level holds a task that
\* is Ready or Running
C35_Witness ==
    /\ last.op = "run_cycle" /\ last.ret # None
    /\ Unwrap(last.ret).priority = High
    /\ HoldsRunnable(multi, Low)

\* every event the executor accepted has been popped from its ring
AllEventsPopped ==
    \A p \in Priorities :
        multi.schedulers[p].events[p].head = multi.schedulers[p].events[p].tail

\* C36: event liveness in the executor: when run_cycle is called again and
\* again, every event accepted at any level is eventually popped from its
\* ring, whatever tasks exist at higher levels (so a full ring accepts posts
\* again after finitely many calls).  On finite runs: in a state that
\* run_cycle leaves as it is, so that calling it again and again changes
\* nothing, no accepted event is still in a ring.
C36_EventsEventuallyPopped ==
    (run_cycle(multi).m = multi) => AllEventsPopped

\* C37: FIFO per priority in simple_async_scheduler: the events of one
\* priority that process_events has handled are the first of the events of
\* that priority post_event accepted, in the order in which they were posted.
C37_SimpleFifo ==
    \A p \in Priorities :
        /\ Len(hist.popped[p]) <= Len(hist.pushed[p])
        /\ hist.popped[p] = SubSeq(hist.pushed[p], 1, Len(hist.popped[p]))

\* C38: in simple_async_scheduler a post onto a queue that holds MAX_EVENTS
\* events returns false and leaves every queue as it is; a post onto a queue
\* with room is accepted whatever the other three queues hold and changes
\* only its own queue; no queue ever holds more than MAX_EVENTS events.
C38_SimpleFullQueueRejects ==
    [][/\ \A p \in Priorities : Len(queues'[p]) <= MAX_EVENTS
       /\ (last'.op = "simple_post_event") =>
            LET p == last'.event.priority
            IN  /\ Len(queues[p]) = MAX_EVENTS
                      => ~last'.ret /\ queues' = queues
                /\ Len(queues[p]) < MAX_EVENTS
                      => last'.ret /\ queues'[p] = Append(queues[p], last'.event)
                /\ \A q \in Priorities \ {p} : queues'[q] = queues[q]
      ]_vars

\* a post was rejected by a full queue while another queue holds an event
C38_Witness ==
    /\ last.op = "simple_post_event" /\ ~last.ret
    /\ Len(queues[last.event.priority]) = MAX_EVENTS
    /\ \E q \in Priorities \ {last.event.priority} : queues[q] # <<>>

\* C39: a rejected post is a complete no-op on the scheduler: when post_event
\* fails because the ring of the event's priority is full, no task's state,
\* the hot slot, current_task, needs_reschedule, event_counter and the four
\* rings are changed (nor any other field); a task waiting for the event's
\* id stays WaitingForEvent.
C39_RejectedPostNoOp ==
    [][(/\ last'.op = "post_event"
        /\ RingFull(sched.events[last'.event.priority]))
       => /\ ~last'.ret
          /\ sched' = sched
          /\ \A i \in Slots :
                HasState(sched, i, WaitingForEvent(last'.event.id))
                    => HasState(sched', i, WaitingForEvent(last'.event.id))]_vars

\* a post was rejected while a task was waiting for the event's id
C39_Witness ==
    /\ last.op = "post_event" /\ ~last.ret
    /\ RingFull(sched.events[last.event.priority])
    /\ \E i \in Slots : HasState(sched, i, WaitingForEvent(last.event.id))

\* C40: the cached waiting_event agrees with the task state: in every
\* reachable state a task has waiting_event = Some(e) exactly when its state
\* is WaitingForEvent(e), and waiting_event = None in the states Ready,
\* Running, Sleeping and Completed.
C40_WaitingEventAgrees ==
    \A i \in Occupied(sched) :
        LET task == Unwrap(sched.tasks[i])
        IN  IF task.state.tag = "WaitingForEvent"
            THEN task.waiting_event = Some(task.state.id)
            ELSE task.waiting_event = None

\* a post has woken one waiter, whose waiting_event is None again, while
\* another task still waits with its waiting_event set
C40_Witness ==
    /\ last.op = "post_event" /\ last.woken # None
    /\ HasState(sched, Unwrap(last.woken), Ready)
    /\ Unwrap(sched.tasks[Unwrap(last.woken)]).waiting_event = None
    /\ \E i \in Occupied(sched) :
          /\ StateOf(sched, i).tag = "WaitingForEvent"
          /\ Unwrap(sched.tasks[i]).waiting_event = Some(StateOf(sched, i).id)

====
